---- MODULE Spec2Model ----
(***************************************************************************)
(* LazyPinned<T>(pub Option<T>): an optional value that is lazily          *)
(* initialised through a pinned reference (src/src/lib.rs).                *)
(*                                                                         *)
(* One container lives at a fixed address `self` (it is pinned).  Values   *)
(* of T are objects with an identity and a payload, so that "the same      *)
(* value", "dropped once" and "not stored" are observable.  Each pinned    *)
(* operation of the impl block is an operator computing the new Option,    *)
(* the returned reference and what the call did to its arguments; each     *)
(* action applies one operator to the container.                           *)
(***************************************************************************)
EXTENDS Integers, Sequences, FiniteSets

\* ---- bounds of the model ------------------------------------------------
MaxVal == 1       \* payloads of freshly built values range over 0..MaxVal
MaxCalls == 3     \* calls of the inserting operations (4-7) per behaviour

Vals == 0..MaxVal
ContainerAddrs == {16, 32}   \* where the caller may have pinned the container
Layouts == {0, 4}            \* offset of the Some payload inside Option<T>
UseFns == {"nop", "inc"}     \* use_pin callbacks: leave the value / add to it

VARIABLES
  self,      \* address of the pinned container (Pin<&mut Self>)
  layout,    \* offset of the payload of `self.0` (fixed by the build)
  slot,      \* self.0 : Option<T>
  nextId,    \* identity of the next value of T the caller constructs
  dropLog,   \* identities of the values of T dropped so far, in order
  ext,       \* external state the producers mutate: number of producer runs
  calls,     \* calls of operations 4-7 made so far
  returned,  \* those of them that returned normally
  inserts,   \* times a value has been placed into the slot
  insAddr,   \* address returned by the call that placed the value
  last,      \* the last operation: its name, the slot before it, its
             \* arguments and its result
  prev,      \* the operation before the last one
  cb         \* the use_pin callback the last call was given, the amount it
             \* adds, and the number of successive use_pin_or_insert_with
             \* calls with these same arguments since the slot was Empty

vars == <<self, layout, slot, nextId, dropLog, ext, calls, returned, inserts,
          insAddr, last, prev, cb>>

\* ---- Option<T>, values and references -----------------------------------
None == [some |-> FALSE, id |-> 0, val |-> 0]
Some(o) == [some |-> TRUE, id |-> o.id, val |-> o.val]
Obj(i, x) == [id |-> i, val |-> x]

NoRef == [present |-> FALSE, addr |-> 0, id |-> 0]
Ref(a, i) == [present |-> TRUE, addr |-> a, id |-> i]

\* A producer `impl FnOnce() -> T`: whether it panics when run, the value it
\* yields, and whether that value already exists inside the closure
\* (`move || v`) and so is dropped with the closure when it is never run.
Producer(p, o, c) == [panics |-> p, obj |-> o, captured |-> c]

\* Address of the T inside `this.0` when it is Some: the container does not
\* move, and the payload sits at a fixed offset in it.
SomeAddr(this) == this + layout

\* What a call did, before anything is filled in.
Res0(opt) ==
  [slot |-> opt, ret |-> NoRef, outcome |-> "returned", stored |-> FALSE,
   dropped |-> <<>>, fCalls |-> 0, useCalls |-> 0, useArg |-> NoRef,
   dataUse |-> 0, dataIns |-> 0]

\* The effect of a use_pin callback on the payload it is handed.
UseApply(u, d, x) == IF u = "inc" THEN x + d ELSE x

\* ---- the operations ------------------------------------------------------
\* as_pin_ref that never finds the value (the projection is lost).
as_pin_ref_absent(this, opt) == Res0(opt)

\* as_pin_ref: self.0.as_ref().map(Pin::new_unchecked)
as_pin_ref(this, opt) ==
  [Res0(opt) EXCEPT !.ret = IF opt.some THEN Ref(SomeAddr(this), opt.id)
                                        ELSE NoRef]

\* as_pin_mut through self.0.take(): the value is moved out of the slot
\* into a temporary and the reference is taken to that.
as_pin_mut_take(this, opt) ==
  [Res0(opt) EXCEPT !.slot = None,
                    !.ret = IF opt.some THEN Ref(SomeAddr(this) + 64, opt.id)
                                        ELSE NoRef]

\* as_pin_mut on a by-value copy of self.0: the slot keeps its value, the
\* reference designates the copy's address.
as_pin_mut_copied(this, opt) ==
  [Res0(opt) EXCEPT !.ret = IF opt.some THEN Ref(SomeAddr(this) + 64, opt.id)
                                        ELSE NoRef]

\* as_pin_mut: self.0.as_mut().map(Pin::new_unchecked)
as_pin_mut(this, opt) ==
  [Res0(opt) EXCEPT !.ret = IF opt.some THEN Ref(SomeAddr(this), opt.id)
                                        ELSE NoRef]

\* pin_project_or_insert through Option::insert: v always replaces what the
\* slot holds, and the old value is dropped.
pin_project_or_insert_overwrite(this, opt, v) ==
  [Res0(opt) EXCEPT !.slot = Some(v),
                    !.ret = Ref(SomeAddr(this), v.id),
                    !.stored = TRUE,
                    !.dropped = IF opt.some THEN <<opt.id>> ELSE <<>>]

\* pin_project_or_insert that forgets the unused v instead of dropping it.
pin_project_or_insert_forget(this, opt, v) ==
  IF opt.some
    THEN [Res0(opt) EXCEPT !.ret = Ref(SomeAddr(this), opt.id)]
    ELSE [Res0(opt) EXCEPT !.slot = Some(v),
                           !.ret = Ref(SomeAddr(this), v.id),
                           !.stored = TRUE]

\* pin_project_or_insert: this.0.get_or_insert(v).  Option::get_or_insert
\* writes Some(v) only into a None; otherwise v goes out of scope unused.
pin_project_or_insert(this, opt, v) ==
  IF opt.some
    THEN [Res0(opt) EXCEPT !.ret = Ref(SomeAddr(this), opt.id),
                           !.dropped = <<v.id>>]
    ELSE [Res0(opt) EXCEPT !.slot = Some(v),
                           !.ret = Ref(SomeAddr(this), v.id),
                           !.stored = TRUE]

\* pin_project_or_insert_with through get_or_insert(f()): f runs before the
\* slot is looked at.
pin_project_or_insert_with_eager(this, opt, f) ==
  IF f.panics
    THEN [Res0(opt) EXCEPT !.outcome = "panicked", !.fCalls = 1]
    ELSE IF opt.some
      THEN [Res0(opt) EXCEPT !.ret = Ref(SomeAddr(this), opt.id),
                             !.dropped = <<f.obj.id>>, !.fCalls = 1]
      ELSE [Res0(opt) EXCEPT !.slot = Some(f.obj),
                             !.ret = Ref(SomeAddr(this), f.obj.id),
                             !.stored = TRUE, !.fCalls = 1]

\* pin_project_or_insert_with filling a local copy of the Option: the value
\* f builds never reaches the slot, the reference designates the local.
pin_project_or_insert_with_detached(this, opt, f) ==
  IF opt.some
    THEN [Res0(opt) EXCEPT !.ret = Ref(SomeAddr(this), opt.id),
                           !.dropped = IF f.captured THEN <<f.obj.id>>
                                                     ELSE <<>>]
    ELSE IF f.panics
      THEN [Res0(opt) EXCEPT !.outcome = "panicked", !.fCalls = 1]
      ELSE [Res0(opt) EXCEPT !.ret = Ref(SomeAddr(this) + 64, f.obj.id),
                             !.fCalls = 1]

\* pin_project_or_insert_with: this.0.get_or_insert_with(f).  f runs only
\* for a None, and before the slot is written; an f that is never run is
\* dropped with what it captured.
pin_project_or_insert_with(this, opt, f) ==
  IF opt.some
    THEN [Res0(opt) EXCEPT !.ret = Ref(SomeAddr(this), opt.id),
                           !.dropped = IF f.captured THEN <<f.obj.id>>
                                                     ELSE <<>>]
    ELSE IF f.panics
      THEN [Res0(opt) EXCEPT !.outcome = "panicked", !.fCalls = 1]
      ELSE [Res0(opt) EXCEPT !.slot = Some(f.obj),
                             !.ret = Ref(SomeAddr(this), f.obj.id),
                             !.stored = TRUE, !.fCalls = 1]

\* use_pin_or_insert_with without its Some arm: this.0.insert(insert()) in
\* both states, the old value being dropped.
use_pin_or_insert_with_always_insert(this, opt, u, f) ==
  IF f.panics
    THEN [Res0(opt) EXCEPT !.outcome = "panicked", !.fCalls = 1]
    ELSE [Res0(opt) EXCEPT !.slot = Some(f.obj),
                           !.ret = Ref(SomeAddr(this), f.obj.id),
                           !.stored = TRUE, !.fCalls = 1,
                           !.dropped = IF opt.some THEN <<opt.id>> ELSE <<>>]

\* use_pin_or_insert_with whose None arm also hands the new value to use_pin.
use_pin_or_insert_with_use_both(this, opt, u, f) ==
  IF opt.some
    THEN [Res0(opt) EXCEPT !.slot = Some(Obj(opt.id, UseApply(u, 1, opt.val))),
                           !.ret = Ref(SomeAddr(this), opt.id),
                           !.useCalls = 1,
                           !.useArg = Ref(SomeAddr(this), opt.id),
                           !.dropped = IF f.captured THEN <<f.obj.id>>
                                                     ELSE <<>>]
    ELSE IF f.panics
      THEN [Res0(opt) EXCEPT !.outcome = "panicked", !.fCalls = 1]
      ELSE [Res0(opt) EXCEPT !.slot = Some(Obj(f.obj.id,
                                               UseApply(u, 1, f.obj.val))),
                             !.ret = Ref(SomeAddr(this), f.obj.id),
                             !.stored = TRUE, !.fCalls = 1,
                             !.useCalls = 1,
                             !.useArg = Ref(SomeAddr(this), f.obj.id)]

\* use_pin_or_insert_with whose Some arm returns x without running use_pin.
use_pin_or_insert_with_skip_use(this, opt, u, f) ==
  IF opt.some
    THEN [Res0(opt) EXCEPT !.ret = Ref(SomeAddr(this), opt.id),
                           !.dropped = IF f.captured THEN <<f.obj.id>>
                                                     ELSE <<>>]
    ELSE IF f.panics
      THEN [Res0(opt) EXCEPT !.outcome = "panicked", !.fCalls = 1]
      ELSE [Res0(opt) EXCEPT !.slot = Some(f.obj),
                             !.ret = Ref(SomeAddr(this), f.obj.id),
                             !.stored = TRUE, !.fCalls = 1]

\* use_pin_or_insert_with whose Some arm runs use_pin on a copy of the
\* value: the slot keeps the value as it was, the returned reference
\* designates the slot and not what use_pin received.
use_pin_or_insert_with_use_on_copy(this, opt, u, f) ==
  IF opt.some
    THEN [Res0(opt) EXCEPT !.ret = Ref(SomeAddr(this), opt.id),
                           !.useCalls = 1,
                           !.useArg = Ref(SomeAddr(this) + 64, opt.id),
                           !.dropped = IF f.captured THEN <<f.obj.id>>
                                                     ELSE <<>>]
    ELSE IF f.panics
      THEN [Res0(opt) EXCEPT !.outcome = "panicked", !.fCalls = 1]
      ELSE [Res0(opt) EXCEPT !.slot = Some(f.obj),
                             !.ret = Ref(SomeAddr(this), f.obj.id),
                             !.stored = TRUE, !.fCalls = 1]

\* use_pin_or_insert_with: match &mut this.0 { Some(x) => { use_pin(x); x }
\*                                             None => this.insert(insert()) }
use_pin_or_insert_with(this, opt, u, f) ==
  IF opt.some
    THEN [Res0(opt) EXCEPT !.slot = Some(Obj(opt.id, UseApply(u, 1, opt.val))),
                           !.ret = Ref(SomeAddr(this), opt.id),
                           !.useCalls = 1,
                           !.useArg = Ref(SomeAddr(this), opt.id),
                           !.dropped = IF f.captured THEN <<f.obj.id>>
                                                     ELSE <<>>]
    ELSE IF f.panics
      THEN [Res0(opt) EXCEPT !.outcome = "panicked", !.fCalls = 1]
      ELSE [Res0(opt) EXCEPT !.slot = Some(f.obj),
                             !.ret = Ref(SomeAddr(this), f.obj.id),
                             !.stored = TRUE, !.fCalls = 1]

\* use_pin_or_insert that forwards to pin_project_or_insert and never runs
\* use_pin.
use_pin_or_insert_ignores_use(this, opt, u, v) ==
  pin_project_or_insert(this, opt, v)

\* use_pin_or_insert: self.use_pin_or_insert_with(use_pin, move || v)
use_pin_or_insert(this, opt, u, v) ==
  use_pin_or_insert_with(this, opt, u, Producer(FALSE, v, TRUE))

\* use_pin_or_insert_with_data matching on this.0.take(): the Some arm moves
\* the value out of the slot and hands use_pin the moved value.
use_pin_or_insert_with_data_take(this, opt, data, u, f) ==
  IF opt.some
    THEN [Res0(opt) EXCEPT !.slot = None,
                           !.ret = Ref(SomeAddr(this) + 64, opt.id),
                           !.useCalls = 1,
                           !.useArg = Ref(SomeAddr(this) + 64, opt.id),
                           !.dataUse = 1]
    ELSE IF f.panics
      THEN [Res0(opt) EXCEPT !.outcome = "panicked", !.fCalls = 1,
                             !.dataIns = 1]
      ELSE [Res0(opt) EXCEPT !.slot = Some(Obj(f.obj.id, data)),
                             !.ret = Ref(SomeAddr(this), f.obj.id),
                             !.stored = TRUE, !.fCalls = 1, !.dataIns = 1]

\* use_pin_or_insert_with_data whose None arm hands a clone of data to
\* use_pin as well, on the value just inserted.
use_pin_or_insert_with_data_both(this, opt, data, u, f) ==
  IF opt.some
    THEN [Res0(opt) EXCEPT !.slot = Some(Obj(opt.id, UseApply(u, data, opt.val))),
                           !.ret = Ref(SomeAddr(this), opt.id),
                           !.useCalls = 1,
                           !.useArg = Ref(SomeAddr(this), opt.id),
                           !.dataUse = 1]
    ELSE IF f.panics
      THEN [Res0(opt) EXCEPT !.outcome = "panicked", !.fCalls = 1,
                             !.dataIns = 1]
      ELSE [Res0(opt) EXCEPT !.slot = Some(Obj(f.obj.id,
                                               UseApply(u, data, data))),
                             !.ret = Ref(SomeAddr(this), f.obj.id),
                             !.stored = TRUE, !.fCalls = 1, !.dataIns = 1,
                             !.useCalls = 1,
                             !.useArg = Ref(SomeAddr(this), f.obj.id),
                             !.dataUse = 1]

\* use_pin_or_insert_with_data whose None arm marks the slot Some before it
\* runs insert: a panicking insert leaves a half-built value behind.
use_pin_or_insert_with_data_prefill(this, opt, data, u, f) ==
  IF opt.some
    THEN [Res0(opt) EXCEPT !.slot = Some(Obj(opt.id, UseApply(u, data, opt.val))),
                           !.ret = Ref(SomeAddr(this), opt.id),
                           !.useCalls = 1,
                           !.useArg = Ref(SomeAddr(this), opt.id),
                           !.dataUse = 1]
    ELSE IF f.panics
      THEN [Res0(opt) EXCEPT !.slot = Some(Obj(f.obj.id, 0)),
                             !.outcome = "panicked", !.fCalls = 1,
                             !.dataIns = 1]
      ELSE [Res0(opt) EXCEPT !.slot = Some(Obj(f.obj.id, data)),
                             !.ret = Ref(SomeAddr(this), f.obj.id),
                             !.stored = TRUE, !.fCalls = 1, !.dataIns = 1]

\* use_pin_or_insert_with_data: as use_pin_or_insert_with, with `data` moved
\* into the one callback that runs: use_pin(data, x) or insert(data).
use_pin_or_insert_with_data(this, opt, data, u, f) ==
  IF opt.some
    THEN [Res0(opt) EXCEPT !.slot = Some(Obj(opt.id, UseApply(u, data, opt.val))),
                           !.ret = Ref(SomeAddr(this), opt.id),
                           !.useCalls = 1,
                           !.useArg = Ref(SomeAddr(this), opt.id),
                           !.dataUse = 1]
    ELSE IF f.panics
      THEN [Res0(opt) EXCEPT !.outcome = "panicked", !.fCalls = 1,
                             !.dataIns = 1]
      ELSE [Res0(opt) EXCEPT !.slot = Some(Obj(f.obj.id, data)),
                             !.ret = Ref(SomeAddr(this), f.obj.id),
                             !.stored = TRUE, !.fCalls = 1, !.dataIns = 1]

\* ---- derived comparisons -------------------------------------------------
\* T's own ordering (the payloads are integers here).
CmpT(x, y) == IF x < y THEN "Less" ELSE IF x = y THEN "Equal" ELSE "Greater"

\* derive(PartialEq, Eq): the wrapped Options are equal: same variant and,
\* for Some, equal payloads.
eq(a, b) == a.some = b.some /\ (a.some => a.val = b.val)

\* An ordering that reads an absent value as T's default.
cmp_none_as_default(a, b) ==
  CmpT(IF a.some THEN a.val ELSE 0, IF b.some THEN b.val ELSE 0)

\* derive(PartialOrd, Ord): the ordering of the wrapped Options: None before
\* Some, two Somes by their payloads.
cmp(a, b) ==
  IF a.some /\ b.some THEN CmpT(a.val, b.val)
  ELSE IF a.some THEN "Greater"
  ELSE IF b.some THEN "Less"
  ELSE "Equal"

\* ---- the state machine ---------------------------------------------------
\* The record kept of one operation: its name, the slot it found, the value
\* the caller supplied (or the producer would build), whether the producer
\* panics when run, and the result.
Op(op, pre, arg, fp, r) == [op |-> op, pre |-> pre, arg |-> arg, fp |-> fp, r |-> r]

\* The callbacks of one call: use_pin, what it adds, the length of the run
\* of identical use_pin_or_insert_with calls this call ends.
Cb(u, d, k) == [u |-> u, d |-> d, k |-> k]
NoCb == Cb("none", 0, 0)

\* Default::default() with its slot holding a value already.
default_filled == Some(Obj(0, 0))

\* Default::default(): Self(None)
default == None

\* impl Default: Self(None), at whatever address the caller pins it.
Init ==
  /\ self \in ContainerAddrs
  /\ layout \in Layouts
  /\ slot = default
  /\ nextId = 1
  /\ dropLog = <<>>
  /\ ext = 0
  /\ calls = 0
  /\ returned = 0
  /\ inserts = 0
  /\ insAddr = 0
  /\ last = Op("default", None, Obj(0, 0), FALSE, Res0(None))
  /\ prev = Op("default", None, Obj(0, 0), FALSE, Res0(None))
  /\ cb = NoCb

\* A projection call: the container is all it can touch.
Project(op, r) ==
  /\ slot' = r.slot
  /\ last' = Op(op, slot, Obj(0, 0), FALSE, r)
  /\ prev' = last
  /\ UNCHANGED <<self, layout, nextId, dropLog, ext, calls, returned,
                 inserts, insAddr>>

\* A call of one of the operations 4-7 with result r; `arg` is the value the
\* caller supplied or the producer would build, `fp` whether the producer
\* panics when run.
Call(op, arg, fp, r) ==
  /\ calls < MaxCalls
  /\ slot' = r.slot
  /\ nextId' = nextId + 1
  /\ dropLog' = dropLog \o r.dropped
  /\ ext' = ext + r.fCalls
  /\ calls' = calls + 1
  /\ returned' = IF r.outcome = "returned" THEN returned + 1 ELSE returned
  /\ inserts' = IF r.stored THEN inserts + 1 ELSE inserts
  /\ insAddr' = IF r.stored THEN r.ret.addr ELSE insAddr
  /\ last' = Op(op, slot, arg, fp, r)
  /\ prev' = last
  /\ UNCHANGED <<self, layout>>

\* Length of the run of identical use_pin_or_insert_with(u, || x) calls that
\* the next such call ends: it starts on an Empty slot and goes on while the
\* same arguments are passed again.
Run(u, x, p) ==
  IF p THEN 0
  ELSE IF ~slot.some THEN 1
  ELSE IF /\ last.op = "use_pin_or_insert_with" /\ cb.k >= 1
          /\ cb.u = u /\ last.arg.val = x
    THEN cb.k + 1
    ELSE 0

AsPinRef == Project("as_pin_ref", as_pin_ref(self, slot)) /\ cb' = NoCb

AsPinMut == Project("as_pin_mut", as_pin_mut(self, slot)) /\ cb' = NoCb

PinProjectOrInsert ==
  \E x \in Vals :
    /\ Call("pin_project_or_insert", Obj(nextId, x), FALSE,
            pin_project_or_insert(self, slot, Obj(nextId, x)))
    /\ cb' = NoCb

PinProjectOrInsertWith ==
  \E x \in Vals, p \in BOOLEAN :
    /\ Call("pin_project_or_insert_with", Obj(nextId, x), p,
            pin_project_or_insert_with(self, slot,
                                    Producer(p, Obj(nextId, x), FALSE)))
    /\ cb' = NoCb

UsePinOrInsert ==
  \E u \in UseFns, x \in Vals :
    /\ Call("use_pin_or_insert", Obj(nextId, x), FALSE,
            use_pin_or_insert(self, slot, u, Obj(nextId, x)))
    /\ cb' = Cb(u, 1, 0)

UsePinOrInsertWith ==
  \E u \in UseFns, x \in Vals, p \in BOOLEAN :
    /\ Call("use_pin_or_insert_with", Obj(nextId, x), p,
            use_pin_or_insert_with(self, slot, u,
                                   Producer(p, Obj(nextId, x), FALSE)))
    /\ cb' = Cb(u, 1, Run(u, x, p))

UsePinOrInsertWithData ==
  \E u \in UseFns, d \in Vals, p \in BOOLEAN :
    /\ Call("use_pin_or_insert_with_data", Obj(nextId, d), p,
            use_pin_or_insert_with_data(self, slot, d, u,
                                        Producer(p, Obj(nextId, d), FALSE)))
    /\ cb' = Cb(u, d, 0)

Next ==
  \/ AsPinRef
  \/ AsPinMut
  \/ PinProjectOrInsert
  \/ PinProjectOrInsertWith
  \/ UsePinOrInsert
  \/ UsePinOrInsertWith
  \/ UsePinOrInsertWithData

Spec == Init /\ [][Next]_vars

\* ---- the claims ----------------------------------------------------------
InsertOps ==
  {"pin_project_or_insert", "pin_project_or_insert_with", "use_pin_or_insert",
   "use_pin_or_insert_with", "use_pin_or_insert_with_data"}
ProjectOps == {"as_pin_ref", "as_pin_mut"}

\* How many times the value with identity i has been dropped.
DropCount(i) == Cardinality({k \in DOMAIN dropLog : dropLog[k] = i})

\* C1: once the slot is Occupied it is Occupied in every later state: no
\* pinned operation takes the slot from Occupied to Empty.
C1_OccupiedStaysOccupied == [][slot.some => slot'.some]_vars

C1_Witness ==
  /\ last.op = "use_pin_or_insert_with_data"
  /\ prev.op \in InsertOps
  /\ prev.pre.some /\ last.pre.some /\ slot.some

C3_IdempotentInsert ==
  /\ (last.op = "pin_project_or_insert" /\ last.pre.some) =>
       slot = last.pre /\ slot.id # last.arg.id
  /\ (last.op = "pin_project_or_insert" /\ prev.op = "pin_project_or_insert"
        /\ ~prev.pre.some) =>
       slot = Some(prev.arg) /\ slot.id # last.arg.id

C3_Witness ==
  /\ last.op = "pin_project_or_insert" /\ prev.op = "pin_project_or_insert"
  /\ ~prev.pre.some
  /\ last.arg.val # prev.arg.val

\* C4: pin_project_or_insert_with(f) runs f zero times when the slot is
\* Occupied, leaving the contained value unchanged and returning normally
\* even for an f that would panic; it runs f exactly once when the slot is
\* Empty and stores the result f returns.
C4_LazyProducer ==
  last.op = "pin_project_or_insert_with" =>
    IF last.pre.some
      THEN last.r.fCalls = 0 /\ slot = last.pre /\ last.r.outcome = "returned"
      ELSE /\ last.r.fCalls = 1
           /\ last.r.outcome = "returned" => slot = Some(last.arg)

C4_Witness ==
  /\ last.op = "pin_project_or_insert_with"
  /\ last.pre.some /\ last.fp
  /\ last.r.outcome = "returned"

\* C5: use_pin_or_insert_with on an Empty container runs the insert producer
\* once and use_pin not at all; on an Occupied container it runs use_pin
\* once, on the existing contained value, and the producer not at all.
\* Exactly one of the two callbacks runs in every call.
C5_BranchSelection ==
  last.op = "use_pin_or_insert_with" =>
    /\ last.r.useCalls + last.r.fCalls = 1
    /\ IF last.pre.some
         THEN /\ last.r.useCalls = 1 /\ last.r.fCalls = 0
              /\ last.r.useArg = Ref(SomeAddr(self), last.pre.id)
              /\ slot.id = last.pre.id
         ELSE /\ last.r.fCalls = 1 /\ last.r.useCalls = 0
              /\ ~last.r.useArg.present

C5_Witness ==
  /\ last.op = "use_pin_or_insert_with" /\ last.pre.some
  /\ prev.op = "use_pin_or_insert_with" /\ prev.r.stored

\* C6: when pin_project_or_insert(v) finds the slot Occupied, v is dropped
\* exactly once, during the call, and the contained value is not dropped;
\* when the slot is Empty, v is moved into the slot and not dropped.
C6_UnusedValueDropped ==
  last.op = "pin_project_or_insert" =>
    IF last.pre.some
      THEN /\ last.r.dropped = <<last.arg.id>>
           /\ DropCount(last.arg.id) = 1
           /\ DropCount(last.pre.id) = 0
      ELSE /\ last.r.dropped = <<>>
           /\ DropCount(last.arg.id) = 0
           /\ slot.id = last.arg.id

C6_Witness ==
  /\ last.op = "pin_project_or_insert" /\ last.pre.some
  /\ DropCount(last.arg.id) = 1
  /\ Len(dropLog) = 2

\* C7: after a value has been placed into the slot, every reference a later
\* pinned operation returns or hands to use_pin, and the references
\* as_pin_ref and as_pin_mut yield, designate the address the inserting call
\* returned.
C7_NoRelocation ==
  inserts >= 1 =>
    /\ last.r.ret.present => last.r.ret.addr = insAddr
    /\ last.r.useArg.present => last.r.useArg.addr = insAddr
    /\ as_pin_ref(self, slot).ret.addr = insAddr
    /\ as_pin_mut(self, slot).ret.addr = insAddr

C7_Witness ==
  /\ inserts = 1
  /\ last.op = "use_pin_or_insert" /\ last.r.useArg.present
  /\ prev.op = "as_pin_mut" /\ prev.r.ret.present
  /\ last.r.ret.addr = prev.r.ret.addr

\* C8: in every reachable state as_pin_ref yields a reference iff as_pin_mut
\* does, both exactly when the slot is Occupied, and both then designate the
\* same contained value.
C8_ProjectionsAgree ==
  /\ as_pin_ref(self, slot).ret.present = slot.some
  /\ as_pin_mut(self, slot).ret.present = slot.some
  /\ as_pin_ref(self, slot).ret = as_pin_mut(self, slot).ret
  /\ slot.some => as_pin_ref(self, slot).ret.id = slot.id
  /\ last.op \in ProjectOps => last.r.ret.present = last.pre.some

C8_Witness ==
  /\ last.op = "as_pin_ref" /\ last.r.ret.present
  /\ prev.op = "as_pin_mut" /\ prev.r.ret = last.r.ret

\* C9: after a call of one of the operations 4-7 whose callbacks return, the
\* slot is Occupied and the returned reference designates the value the slot
\* contains (the one as_pin_mut yields); the only way a call does not return
\* a reference is the unwinding of its own panicking producer.
C9_ReturnsContainedValue ==
  last.op \in InsertOps =>
    /\ last.r.outcome = "returned" =>
         /\ slot.some
         /\ last.r.ret.present
         /\ last.r.ret.id = slot.id
         /\ last.r.ret = as_pin_mut(self, slot).ret
    /\ last.r.outcome # "returned" => last.fp /\ ~last.pre.some

C9_Witness ==
  /\ last.op = "pin_project_or_insert_with" /\ ~last.pre.some
  /\ last.r.outcome = "returned"
  /\ prev.r.outcome = "panicked"

\* C10: as_pin_ref and as_pin_mut leave the container unchanged: the slot is
\* Empty or Occupied as before the call and holds the same value.
C10_ProjectionsDoNotMutate ==
  last.op \in ProjectOps => slot = last.pre /\ last.r.slot = last.pre

C10_Witness ==
  /\ last.op = "as_pin_mut" /\ last.pre.some /\ last.r.ret.present
  /\ last.pre.val > MaxVal
  /\ prev.op = "as_pin_ref"

\* use_pin applied n times to the payload x.
RECURSIVE UseTimes(_, _, _)
UseTimes(u, x, n) == IF n = 0 THEN x ELSE UseApply(u, 1, UseTimes(u, x, n - 1))

\* C11: from an Empty container, k >= 1 successive calls of
\* use_pin_or_insert_with(use, insert) with the same arguments leave the
\* contained value equal to the producer's result with use applied k-1
\* times; with use = increment and insert = || 0 the value is 0 after the
\* first call and 1 after the second.
C11_RepeatedUseOrInsert ==
  cb.k >= 1 =>
    /\ last.op = "use_pin_or_insert_with"
    /\ slot.some
    /\ slot.val = UseTimes(cb.u, last.arg.val, cb.k - 1)
    /\ (cb.u = "inc" /\ last.arg.val = 0) => slot.val = cb.k - 1

C11_Witness ==
  /\ cb.k = 3 /\ cb.u = "inc" /\ last.arg.val = 0
  /\ slot.val = 2
  /\ prev.op = "use_pin_or_insert_with" /\ prev.r.useCalls = 1

\* The callbacks of the last use_pin_or_insert_with_data call, with its data
\* supplied to them, given to use_pin_or_insert_with on the same slot.
WithoutData ==
  use_pin_or_insert_with(self, last.pre, cb.u,
                         Producer(last.fp, last.arg, FALSE))

\* C12: use_pin_or_insert_with_data behaves like use_pin_or_insert_with with
\* the data supplied to the callbacks: it takes the same branch and yields
\* the same slot state and value, and it hands data to exactly one callback:
\* to use_pin when Occupied, to insert when Empty.
C12_WithDataLikeWithout ==
  last.op = "use_pin_or_insert_with_data" =>
    /\ last.r.dataUse + last.r.dataIns = 1
    /\ IF last.pre.some
         THEN last.r.dataUse = 1 /\ last.r.useCalls = 1
         ELSE last.r.dataIns = 1 /\ last.r.fCalls = 1
    /\ last.r.outcome = WithoutData.outcome
    /\ last.r.stored = WithoutData.stored
    /\ last.r.useCalls = WithoutData.useCalls
    /\ last.r.fCalls = WithoutData.fCalls
    /\ last.r.ret = WithoutData.ret
    /\ last.r.useArg = WithoutData.useArg
    /\ slot.some = WithoutData.slot.some
    /\ slot.id = WithoutData.slot.id
    /\ slot.val = IF last.pre.some
                    THEN UseApply(cb.u, cb.d, last.pre.val)
                    ELSE WithoutData.slot.val
    /\ cb.d = 1 => slot = WithoutData.slot

C12_Witness ==
  /\ last.op = "use_pin_or_insert_with_data" /\ last.pre.some
  /\ cb.u = "inc" /\ cb.d = 1 /\ last.r.dataUse = 1
  /\ prev.op = "use_pin_or_insert_with_data" /\ prev.r.dataIns = 1
  /\ prev.r.stored

\* Containers to compare the current one with: an Empty one, copies of the
\* container taken before the last two operations, and ones holding any
\* fresh value.
Others == {None, last.pre, prev.pre} \cup {Some(Obj(0, x)) : x \in Vals}

\* C13: equality and ordering of containers are those of the wrapped
\* optional value: an Empty container is strictly less than one holding any
\* x; two Occupied containers are equal iff their values are and are ordered
\* as their values; two Empty containers are equal.
C13_OptionOrdering ==
  \A b \in Others :
    /\ (~slot.some /\ b.some) =>
         cmp(slot, b) = "Less" /\ cmp(b, slot) = "Greater" /\ ~eq(slot, b)
    /\ (slot.some /\ b.some) =>
         /\ eq(slot, b) <=> slot.val = b.val
         /\ cmp(slot, b) = "Equal" <=> slot.val = b.val
         /\ cmp(slot, b) = "Less" <=> slot.val < b.val
         /\ cmp(slot, b) = "Greater" <=> slot.val > b.val
    /\ (~slot.some /\ ~b.some) => eq(slot, b) /\ cmp(slot, b) = "Equal"

C13_Witness ==
  /\ ~prev.pre.some /\ last.pre.some /\ slot.some
  /\ cmp(prev.pre, slot) = "Less"
  /\ cmp(last.pre, slot) = "Less" /\ ~eq(last.pre, slot)
  /\ eq(last.pre, Some(Obj(0, last.pre.val)))

\* C14: a container made by Default::default() is Empty: until a value has
\* been placed into it, as_pin_ref and as_pin_mut both return absent.
C14_DefaultIsEmpty ==
  inserts = 0 =>
    /\ ~slot.some
    /\ as_pin_ref(self, slot).ret = NoRef
    /\ as_pin_mut(self, slot).ret = NoRef
    /\ last.op \in ProjectOps => ~last.r.ret.present

C14_Witness ==
  /\ inserts = 0 /\ calls = 0
  /\ last.op = "as_pin_mut" /\ prev.op = "as_pin_ref"
  /\ ~last.r.ret.present /\ ~prev.r.ret.present

\* C15: use_pin_or_insert(use, v) is use_pin_or_insert_with(use, move || v):
\* on an Empty container v is stored and use is not run; on an Occupied one
\* use runs exactly once on the existing value, v is never stored, and v is
\* dropped exactly once during the call.
C15_ByValueLikeByFactory ==
  last.op = "use_pin_or_insert" =>
    /\ last.r = use_pin_or_insert_with(self, last.pre, cb.u,
                                       Producer(FALSE, last.arg, TRUE))
    /\ IF last.pre.some
         THEN /\ last.r.useCalls = 1 /\ last.r.fCalls = 0
              /\ last.r.useArg = Ref(SomeAddr(self), last.pre.id)
              /\ slot.id = last.pre.id /\ slot.id # last.arg.id
              /\ slot.val = UseApply(cb.u, 1, last.pre.val)
              /\ last.r.dropped = <<last.arg.id>>
              /\ DropCount(last.arg.id) = 1
         ELSE /\ slot = Some(last.arg)
              /\ last.r.useCalls = 0
              /\ last.r.dropped = <<>>
              /\ DropCount(last.arg.id) = 0
              /\ last.r.outcome = "returned"

C15_Witness ==
  /\ last.op = "use_pin_or_insert" /\ last.pre.some
  /\ cb.u = "inc" /\ slot.val = last.pre.val + 1
  /\ DropCount(last.arg.id) = 1

ProducerOps ==
  {"pin_project_or_insert_with", "use_pin_or_insert_with",
   "use_pin_or_insert_with_data"}

\* C16: when the producer given to pin_project_or_insert_with,
\* use_pin_or_insert_with or use_pin_or_insert_with_data runs on an Empty
\* container and panics, the slot is still Empty afterwards, never Occupied
\* or partly filled, and a later call of the operations 4-7 still fills it.
C16_PanicLeavesEmpty ==
  /\ (last.op \in ProducerOps /\ last.fp /\ ~last.pre.some) =>
       /\ last.r.outcome = "panicked"
       /\ last.r.fCalls = 1
       /\ ~last.r.stored
       /\ slot = None
  /\ last.r.outcome = "panicked" =>
       last.op \in ProducerOps /\ last.fp /\ ~last.pre.some
  /\ (prev.r.outcome = "panicked" /\ last.op \in InsertOps
        /\ last.r.outcome = "returned") =>
       /\ last.r.stored
       /\ slot.some /\ slot.id = last.arg.id

C16_Witness ==
  /\ prev.op = "use_pin_or_insert_with_data" /\ prev.r.outcome = "panicked"
  /\ ~last.pre.some
  /\ last.op = "use_pin_or_insert" /\ last.r.stored /\ slot.some

\* C17: on the Occupied branch of use_pin_or_insert_with and
\* use_pin_or_insert_with_data, use_pin has run when the call returns and
\* the returned reference designates the contained value use_pin received:
\* the caller sees the value as use_pin left it.
C17_ResultIsPostUse ==
  (last.op \in {"use_pin_or_insert_with", "use_pin_or_insert_with_data"}
     /\ last.pre.some) =>
    /\ last.r.useCalls = 1
    /\ last.r.ret.present
    /\ last.r.ret = last.r.useArg
    /\ last.r.ret = as_pin_mut(self, slot).ret
    /\ slot.id = last.pre.id /\ last.r.ret.id = slot.id
    /\ slot.val = UseApply(cb.u, cb.d, last.pre.val)

C17_Witness ==
  /\ last.op = "use_pin_or_insert_with" /\ last.pre.some
  /\ cb.u = "inc" /\ slot.val = last.pre.val + 1
  /\ last.r.ret = last.r.useArg

====
